---- MODULE Spec2Model ----
(***************************************************************************)
(* Verification model of rkinas/icecube-neutrinos-in-deep-ice:             *)
(*   src/src/datasets.py  create_folds, IceCubeDataset, IceCubeDataModule  *)
(*   src/src/losses.py    angular_dist_score, angular_dist_loss            *)
(*                                                                         *)
(* Three specifications share the module:                                  *)
(*   Spec        the fold assigner (create_folds) called on a table        *)
(*   SpecModule  IceCubeDataModule.setup called on a table of folds        *)
(*   SpecMetric  the two angular distance functions applied to one input   *)
(***************************************************************************)
EXTENDS Integers, Sequences, FiniteSets, TLC

VARIABLES
  data,        \* the DataFrame handed to create_folds (mutated in place)
  call,        \* arguments of the most recent create_folds call
  outcome,     \* how that call ended: "none", "returned", "ValueError", "KeyError"
  np_random,   \* state of numpy's global RandomState singleton
  n_calls,     \* how many create_folds calls the table has been through
  dm,          \* the IceCubeDataModule object
  y_true,      \* metric input: rows of <<azimuth, zenith>>, ground truth
  y_pred,      \* metric input: rows of <<azimuth, zenith>>, prediction
  score_out,   \* what angular_dist_score did on (y_true, y_pred)
  loss_out     \* what angular_dist_loss did on (y_pred, y_true)

vars == <<data, call, outcome, np_random, n_calls, dm, y_true, y_pred, score_out, loss_out>>

\* ---------------------------------------------------------------- bounds
MaxRows == 21          \* rows of the table given to create_folds
MaxSplits == 3         \* largest n_splits tried
MaxCalls == 2          \* create_folds calls on one table
MaxEvents == 3         \* rows of the folds table the data module reads
MaxFold == 2           \* largest fold label / fold_n of the data module
MaxLen == 2            \* rows of the metric's inputs

\* ---------------------------------------------------------------- helpers
Range(s) == {s[i] : i \in DOMAIN s}

Min(S) == CHOOSE x \in S : \A y \in S : x <= y

RECURSIVE SumSeq(_)
SumSeq(s) == IF s = <<>> THEN 0 ELSE s[1] + SumSeq(Tail(s))

RECURSIVE SetToSortedSeq(_)
SetToSortedSeq(S) == IF S = {} THEN <<>>
                     ELSE LET m == Min(S) IN <<m>> \o SetToSortedSeq(S \ {m})

\* np.sort of a sequence of integers
RECURSIVE Insert(_, _)
Insert(v, s) == IF s = <<>> THEN <<v>>
                ELSE IF v <= s[1] THEN <<v>> \o s
                ELSE <<s[1]>> \o Insert(v, Tail(s))

RECURSIVE Sorted(_)
Sorted(x) == IF x = <<>> THEN <<>> ELSE Insert(x[1], Sorted(Tail(x)))

\* ------------------------------------------------------------ create_folds
\* Floating point values of the fold assigner are kept exactly: log10 in
\* thousandths, a quantile edge in ten-thousandths (ten times a log value).
NumBins == 10
NegInf == -1000000     \* log10(0)
NaN == -2000000        \* not-a-number, as an edge or as a bin label
Unassigned == -1       \* the fold sentinel

Log10Table ==
  << 0, 301, 477, 602, 699, 778, 845, 903, 954, 1000,
     1041, 1079, 1114, 1146, 1176, 1204, 1230, 1255, 1279, 1301,
     1322, 1342, 1362, 1380, 1398, 1415, 1431, 1447, 1462, 1477,
     1491, 1505, 1519, 1531, 1544, 1556, 1568, 1580, 1591, 1602 >>

\* np.log10 of a pulse count (a non-negative integer)
log10(p) == IF p = 0 THEN NegInf ELSE Log10Table[p]

\* line 14: data["n_pulses"] = data["last_pulse_index"] - data["first_pulse_index"]
SetNPulses(d) ==
  [d EXCEPT !.n_pulses = [i \in DOMAIN d.index |->
                             d.last_pulse_index[i] - d.first_pulse_index[i]] \o <<>>,
            !.columns = @ \cup {"n_pulses"}]

\* numpy's linear interpolation a + (b - a) * t of two sorted neighbours, t = r/10,
\* scaled by ten (the formula of numpy 1.20 and later). With a = -inf the difference is inf or nan: the sum is nan, and
\* for t >= 0.5 numpy takes b - (b - a) * (1 - t) instead, which is -inf or nan.
lerp(a, b, r) ==
  IF a = NegInf
    THEN IF b = NegInf THEN NaN
         ELSE IF r >= 5 THEN NegInf ELSE NaN
    ELSE 10 * a + (b - a) * r

\* Series.quantile(np.linspace(0, 1, q + 1)): the q + 1 bin edges
QuantileEdges(x, q) ==
  LET n == Len(x)
      s == Sorted(x)
  IN [k1 \in 1..(q + 1) |->
        IF n = 0 THEN NaN
        ELSE LET pos == (k1 - 1) * (n - 1)
                 lo == pos \div q
                 hi == IF lo + 1 > n - 1 THEN n - 1 ELSE lo + 1
             IN lerp(s[lo + 1], s[hi + 1], pos % q)] \o <<>>

\* pandas _bins_to_cuts: the label of value x (in thousandths) among the edges:
\* searchsorted(side="left") counts the edges below x, the lowest edge is
\* included in the first bin, and a value left of every edge gets NaN.
BinLabel(edges, x) ==
  LET below == Cardinality({k \in DOMAIN edges :
                              /\ edges[k] # NaN
                              /\ \/ edges[k] = NegInf /\ x # NegInf
                                 \/ edges[k] # NegInf /\ x # NegInf /\ edges[k] < 10 * x})
      ids == IF x # NegInf /\ edges[1] = 10 * x THEN 1
             ELSE IF x = NegInf /\ edges[1] = NegInf THEN 1
             ELSE below
  IN IF ids = 0 THEN NaN ELSE ids - 1

\* line 15: pd.qcut(values, q, labels=False); duplicates="raise" is the default
qcut(x, q) ==
  LET edges == QuantileEdges(x, q)
  IN IF Cardinality(Range(edges)) < Len(edges)
       THEN [ok |-> FALSE, labels |-> <<>>]
       ELSE [ok |-> TRUE, labels |-> [i \in DOMAIN x |-> BinLabel(edges, x[i])] \o <<>>]

\* numpy RandomState: a linear congruential generator stands in for MT19937
rk_seed(seed) == (seed * 7919 + 104729) % 65537
rk_next(s) == (s * 75 + 74) % 65537

\* RandomState.shuffle: for i in reversed(range(1, n)): j = rk_interval(i); swap
RECURSIVE shuffle(_, _, _)
shuffle(x, i, s) ==
  IF i < 1 THEN [x |-> x, rng |-> s]
  ELSE LET s2 == rk_next(s)
           j == s2 % (i + 1)
       IN shuffle([x EXCEPT ![i + 1] = x[j + 1], ![j + 1] = x[i + 1]], i - 1, s2)

\* sklearn check_random_state(seed): an int seeds a fresh RandomState on every
\* call; the global singleton g is used only for seed None
check_random_state_global(seed, g) == [state |-> g, global |-> TRUE]
check_random_state(seed, g) == [state |-> rk_seed(seed), global |-> FALSE]

\* StratifiedKFold._make_test_folds: classes are encoded by first appearance
y_encoded(y) ==
  LET first(c) == Min({i \in DOMAIN y : y[i] = c})
  IN [i \in DOMAIN y |->
        Cardinality({c \in Range(y) : first(c) < first(y[i])})] \o <<>>

\* allocation[f][k] = np.bincount(y_order[f::n_splits])[k] with y_order =
\* np.sort(y_encoded); kept as a sequence over f + 1 of sequences over k + 1
allocation(ye, n_splits) ==
  LET y_order == Sorted(ye)
      n_classes == Cardinality(Range(ye))
  IN [f1 \in 1..n_splits |->
        [k1 \in 1..n_classes |->
           Cardinality({j \in DOMAIN y_order :
                          (j - 1) % n_splits = f1 - 1 /\ y_order[j] = k1 - 1})] \o <<>>] \o <<>>

\* np.arange(n_splits).repeat(allocation[:, k])
folds_for_class(alloc, n_splits, k) ==
  LET upto == [f1 \in 1..n_splits |->
                 SumSeq([g \in 1..f1 |-> alloc[g][k + 1]])] \o <<>>
  IN [j \in 1..upto[n_splits] |->
        Min({f \in 0..(n_splits - 1) : upto[f + 1] >= j})] \o <<>>

\* the loop over the classes: shuffle each class's folds, write them to its rows
RECURSIVE assign_classes(_, _, _, _, _, _)
assign_classes(ye, alloc, n_splits, k, tf, s) ==
  IF k >= Len(alloc[1]) THEN [test_folds |-> tf, rng |-> s]
  ELSE LET ffc == folds_for_class(alloc, n_splits, k)
           sh == shuffle(ffc, Len(ffc) - 1, s)
           rows == SetToSortedSeq({i \in DOMAIN ye : ye[i] = k})
           tf2 == [i \in DOMAIN tf |->
                     IF ye[i] = k
                       THEN sh.x[CHOOSE j \in DOMAIN rows : rows[j] = i]
                       ELSE tf[i]] \o <<>>
       IN assign_classes(ye, alloc, n_splits, k + 1, tf2, sh.rng)

make_test_folds(y, n_splits, s) ==
  LET ye == y_encoded(y)
  IN assign_classes(ye, allocation(ye, n_splits), n_splits, 0,
                    [i \in DOMAIN y |-> 0] \o <<>>, s)

\* (mutant) a .loc that skips the labels the index lacks instead of raising
loc_set_fold_skip_missing(d, v, f) ==
  [ok |-> TRUE,
   data |-> [d EXCEPT !.fold = [i \in DOMAIN d.index |->
                                  IF d.index[i] \in v THEN f ELSE d.fold[i]] \o <<>>]]

\* line 21: data.loc[v_, "fold"] = f. v_ holds positions (0-based), .loc looks
\* them up as index labels: a label the index lacks raises KeyError and nothing is
\* written; otherwise every row carrying one of the labels is written.
loc_set_fold(d, v, f) ==
  IF \E l \in v : l \notin Range(d.index)
    THEN [ok |-> FALSE, data |-> d]
    ELSE [ok |-> TRUE,
          data |-> [d EXCEPT !.fold = [i \in DOMAIN d.index |->
                                         IF d.index[i] \in v THEN f ELSE d.fold[i]] \o <<>>]]

\* lines 20-21: for f, (t_, v_) in enumerate(kf.split(...)): data.loc[v_, "fold"] = f
RECURSIVE fold_loop(_, _, _, _)
fold_loop(d, tf, n_splits, f) ==
  IF f >= n_splits THEN [outcome |-> "returned", data |-> d]
  ELSE LET v == {i - 1 : i \in {j \in DOMAIN tf : tf[j] = f}}
           w == loc_set_fold(d, v, f)
       IN IF w.ok THEN fold_loop(w.data, tf, n_splits, f + 1)
          ELSE [outcome |-> "KeyError", data |-> d]

\* the sizes of the classes of y
class_counts(y) == {Cardinality({i \in DOMAIN y : y[i] = c}) : c \in Range(y)}

\* (mutant) a splitter that only warns when every class is smaller than n_splits
split_raises_warn_only(y, n_splits) ==
  \/ n_splits < 2
  \/ n_splits > Len(y)
  \/ NaN \in Range(y)

\* lines 18 and 20: StratifiedKFold(n_splits, ...) raises ValueError for
\* n_splits < 2; split(X, y) raises it for n_splits > n_samples, for NaN labels
\* and when n_splits exceeds the size of every class. A class smaller than
\* n_splits among larger ones is only warned about.
split_raises(y, n_splits) ==
  \/ n_splits < 2
  \/ n_splits > Len(y)
  \/ NaN \in Range(y)
  \/ \A c \in class_counts(y) : n_splits > c

\* lines 18-21: the splitter is built, split and its folds written to the table
stratified_folds(d, n_splits, random_state, g) ==
  LET y == d.bins
      rs == check_random_state(random_state, g)
  IN IF split_raises(y, n_splits)
       THEN [outcome |-> "ValueError", data |-> d, np_random |-> g]
       ELSE LET m == make_test_folds(y, n_splits, rs.state)
                r == fold_loop(d, m.test_folds, n_splits, 0)
            IN [outcome |-> r.outcome, data |-> r.data,
                np_random |-> IF rs.global THEN m.rng ELSE g]

\* lines 13-23
create_folds(d, n_splits, random_state, g) ==
  LET d14 == SetNPulses(d)
      q == qcut([i \in DOMAIN d14.n_pulses |-> log10(d14.n_pulses[i])] \o <<>>, NumBins)
  IN IF ~q.ok
       THEN [outcome |-> "ValueError", data |-> d14, np_random |-> g]
       ELSE LET d15 == [d14 EXCEPT !.bins = q.labels, !.columns = @ \cup {"bins"}]
                d16 == [d15 EXCEPT !.fold = [i \in DOMAIN d15.index |-> Unassigned] \o <<>>,
                                   !.columns = @ \cup {"fold"}]
            IN stratified_folds(d16, n_splits, random_state, g)

\* ------------------------------------------------------- the input tables
Strides == {1, 7}
Moduli == {11, 23}
RandomStates == {0, 48}
Bases == {0, 1}
IndexKinds == {"range", "reversed", "shifted"}

\* the pulse count of row i (0-based) of a generated table
PulseCount(i, stride, modulus, base) == base + ((i * stride) % modulus)

\* the row labels of a table of n rows
IndexLabels(n, kind) ==
  [i \in 1..n |-> IF kind = "range" THEN i - 1
                  ELSE IF kind = "reversed" THEN n - i
                  ELSE i]

\* An event table as read from storage: the pulse ranges are consecutive
\* half-open ranges into the pulse table, no derived column exists yet.
RawTable(n, stride, modulus, base, kind) ==
  LET cnt == [i \in 1..n |-> PulseCount(i - 1, stride, modulus, base)]
      start == [i \in 1..n |-> SumSeq(SubSeq(cnt, 1, i - 1))]
  IN [index |-> IndexLabels(n, kind),
      first_pulse_index |-> start,
      last_pulse_index |-> [i \in 1..n |-> start[i] + cnt[i]],
      columns |-> {},
      n_pulses |-> <<>>, bins |-> <<>>, fold |-> <<>>]

NoTable == RawTable(0, 1, 1, 1, "range")
NoCall == [n_splits |-> 0, random_state |-> 0]

InitFolds ==
  /\ \E n \in 0..MaxRows, st \in Strides, md \in Moduli, b \in Bases, kind \in IndexKinds :
        data = RawTable(n, st, md, b, kind)
  /\ call = NoCall
  /\ outcome = "none"
  /\ np_random = 1
  /\ n_calls = 0

CreateFolds ==
  \E n_splits \in 1..MaxSplits, random_state \in RandomStates :
    LET r == create_folds(data, n_splits, random_state, np_random)
    IN /\ n_calls < MaxCalls
       /\ n_calls' = n_calls + 1
       /\ data' = r.data
       /\ outcome' = r.outcome
       /\ np_random' = r.np_random
       /\ call' = [n_splits |-> n_splits, random_state |-> random_state]
       /\ UNCHANGED <<dm, y_true, y_pred, score_out, loss_out>>

\* ------------------------------------------------------------ idle values
NoModule == [df |-> <<>>, batch_size |-> 1, clr_train |-> <<>>, clr_valid |-> <<>>,
             has_datasets |-> FALSE, train_steps |-> <<0, 1>>,
             stage |-> "none", fold_n |-> 0, outcome |-> "none"]
NoOut == [kind |-> "none", steps |-> <<>>]

IdleModule == dm = NoModule
IdleMetric == y_true = <<>> /\ y_pred = <<>> /\ score_out = NoOut /\ loss_out = NoOut
IdleFolds ==
  data = NoTable /\ call = NoCall /\ outcome = "none" /\ np_random = 1 /\ n_calls = 0


\* ------------------------------------------------------ IceCubeDataModule
BatchSizes == {2, 32}
Stages == {"fit", "None", "validate", "test", "predict"}

\* DataFrame.query on the fold column: the rows (event ids) that satisfy it, in
\* table order; IceCubeDataset keeps them with a fresh 0..n-1 index (line 29)
query_fold_ne(df, fold_n) == SelectSeq([i \in DOMAIN df |-> i] \o <<>>, LAMBDA i : df[i] # fold_n)
query_fold_eq(df, fold_n) == SelectSeq([i \in DOMAIN df |-> i] \o <<>>, LAMBDA i : df[i] = fold_n)

\* (mutant) a training query that keeps every row
query_fold_all(df, fold_n) == [i \in DOMAIN df |-> i] \o <<>>

\* lines 69-70 with the training query of line 69
trn_df(df, fold_n) == query_fold_ne(df, fold_n)
val_df(df, fold_n) == query_fold_eq(df, fold_n)

\* line 76: len(self.clr_train) / self.batch_size is a true division; the
\* quotient is kept as the fraction <<numerator, denominator>>
true_div(a, b) == <<a, b>>

\* lines 68-77
setup(m, stage, fold_n) ==
  LET fitted == IF stage = "fit" \/ stage = "None"
                  THEN [m EXCEPT !.clr_train = trn_df(m.df, fold_n),
                                 !.clr_valid = val_df(m.df, fold_n),
                                 !.has_datasets = TRUE]
                  ELSE m
      called == [fitted EXCEPT !.stage = stage, !.fold_n = fold_n]
  IN IF ~called.has_datasets
       THEN [called EXCEPT !.outcome = "AttributeError"]
       ELSE [called EXCEPT !.train_steps = true_div(Len(called.clr_train), called.batch_size),
                           !.outcome = "returned"]

\* lines 49-66: the module reads the persisted folds table; row i is event i
InitModule ==
  \E n \in 0..MaxEvents, bs \in BatchSizes :
    \E folds \in [1..n -> 0..MaxFold] :
      dm = [NoModule EXCEPT !.df = folds \o <<>>, !.batch_size = bs]

Setup ==
  \E stage \in Stages, fold_n \in 0..MaxFold :
    /\ dm' = setup(dm, stage, fold_n)
    /\ UNCHANGED <<data, call, outcome, np_random, n_calls, y_true, y_pred, score_out, loss_out>>

\* ----------------------------------------------------- angular distance
\* A float is [k, v]: k = "fin" with v an angle in thousandths of a radian or a
\* plain number in hundredths (two decimal digits of precision, every product
\* rounded to nearest), k = "nan", or k = "inf" with v the sign.
Fin(v) == [k |-> "fin", v |-> v]
NaNf == [k |-> "nan", v |-> 0]
Inf(sign) == [k |-> "inf", v |-> sign]
NonFinite == {NaNf, Inf(1), Inf(-1)}

RoundDiv(x, d) == IF x >= 0 THEN (2 * x + d) \div (2 * d)
                  ELSE -((2 * (-x) + d) \div (2 * d))

\* the directions of the inputs: <<azimuth, zenith>> in thousandths of a radian
Dirs == {<<0, 1571>>, <<1047, 1571>>, <<4189, 1571>>, <<0, 0>>}

SinTable(a) == CASE a = 0 -> 0 [] a = 1047 -> 87 [] a = 1571 -> 100 [] a = 4189 -> -87
CosTable(a) == CASE a = 0 -> 100 [] a = 1047 -> 50 [] a = 1571 -> 0 [] a = 4189 -> -50

\* arccos(x / 100) in thousandths of a radian, for x = -100 .. 100
ArcCosTable ==
  <<
     3142, 3000, 2941, 2896, 2858, 2824, 2793, 2765, 2739, 2714, 2691, 2668,
     2647, 2626, 2606, 2587, 2568, 2550, 2532, 2515, 2498, 2482, 2465, 2450,
     2434, 2419, 2404, 2389, 2375, 2360, 2346, 2332, 2319, 2305, 2292, 2278,
     2265, 2252, 2240, 2227, 2214, 2202, 2190, 2177, 2165, 2153, 2141, 2129,
     2118, 2106, 2094, 2083, 2071, 2060, 2049, 2038, 2026, 2015, 2004, 1993,
     1982, 1971, 1961, 1950, 1939, 1928, 1918, 1907, 1897, 1886, 1875, 1865,
     1855, 1844, 1834, 1823, 1813, 1803, 1793, 1782, 1772, 1762, 1752, 1742,
     1731, 1721, 1711, 1701, 1691, 1681, 1671, 1661, 1651, 1641, 1631, 1621,
     1611, 1601, 1591, 1581, 1571, 1561, 1551, 1541, 1531, 1521, 1511, 1501,
     1491, 1481, 1471, 1461, 1451, 1440, 1430, 1420, 1410, 1400, 1390, 1380,
     1369, 1359, 1349, 1339, 1328, 1318, 1308, 1297, 1287, 1277, 1266, 1256,
     1245, 1234, 1224, 1213, 1203, 1192, 1181, 1170, 1159, 1148, 1137, 1126,
     1115, 1104, 1093, 1082, 1070, 1059, 1047, 1036, 1024, 1012, 1000, 988,
     976, 964, 952, 940, 927, 915, 902, 889, 876, 863, 850, 837,
     823, 809, 795, 781, 767, 752, 738, 723, 707, 692, 676, 660,
     644, 627, 609, 592, 574, 555, 536, 516, 495, 473, 451, 428,
     403, 376, 348, 318, 284, 246, 200, 142, 0
  >>

\* (mutant) a finiteness test that only rejects NaN
isfinite_nan_only(x) == x.k # "nan"

isfinite(x) == x.k = "fin"
sin(x) == IF x.k = "fin" THEN Fin(SinTable(x.v)) ELSE NaNf
cos(x) == IF x.k = "fin" THEN Fin(CosTable(x.v)) ELSE NaNf
mul(x, y) == IF x.k = "fin" /\ y.k = "fin" THEN Fin(RoundDiv(x.v * y.v, 100)) ELSE NaNf
add(x, y) == IF x.k = "fin" /\ y.k = "fin" THEN Fin(x.v + y.v) ELSE NaNf

\* (mutant) no clamp
clip_missing(x, lo, hi) == x

\* np.clip / torch.clamp: NaN stays NaN
clip(x, lo, hi) == IF x.k # "fin" THEN x
                   ELSE IF x.v < lo THEN Fin(lo)
                   ELSE IF x.v > hi THEN Fin(hi)
                   ELSE x

\* arccos is NaN outside [-1, 1]
arccos(x) == IF x.k = "fin" /\ x.v >= -100 /\ x.v <= 100
               THEN Fin(ArcCosTable[x.v + 101]) ELSE NaNf
abs(x) == IF x.k = "fin" /\ x.v < 0 THEN Fin(-x.v) ELSE x

\* np.average / torch.mean: the mean of no element is 0/0 = NaN
mean(xs) ==
  IF Len(xs) = 0 \/ \E i \in DOMAIN xs : xs[i].k # "fin" THEN NaNf
  ELSE Fin(RoundDiv(SumSeq([i \in DOMAIN xs |-> xs[i].v] \o <<>>), Len(xs)))

\* np.sin / np.cos (torch.sin / torch.cos) of an array, element by element
SinAll(xs) == [i \in DOMAIN xs |-> sin(xs[i])] \o <<>>
CosAll(xs) == [i \in DOMAIN xs |-> cos(xs[i])] \o <<>>
Column(y, c) == [i \in DOMAIN y |-> y[i][c]] \o <<>>

\* lines 32-37: np.all(np.isfinite(.)) of the four arrays
all_finite(az_true, zen_true, az_pred, zen_pred) ==
  /\ \A i \in DOMAIN az_true : isfinite(az_true[i])
  /\ \A i \in DOMAIN zen_true : isfinite(zen_true[i])
  /\ \A i \in DOMAIN az_pred : isfinite(az_pred[i])
  /\ \A i \in DOMAIN zen_pred : isfinite(zen_pred[i])

\* line 52: sz1 * sz2 * (ca1 * ca2 + sa1 * sa2) + (cz1 * cz2)
np_scalar_prod(sa1, ca1, sz1, cz1, sa2, ca2, sz2, cz2) ==
  add(mul(mul(sz1, sz2), add(mul(ca1, ca2), mul(sa1, sa2))), mul(cz1, cz2))

\* lines 5-59
angular_dist_score(az_true, zen_true, az_pred, zen_pred) ==
  IF ~all_finite(az_true, zen_true, az_pred, zen_pred)
    THEN [kind |-> "raise", steps |-> <<"isfinite">>]
    ELSE
      LET sa1 == SinAll(az_true)
          ca1 == CosAll(az_true)
          sz1 == SinAll(zen_true)
          cz1 == CosAll(zen_true)
          sa2 == SinAll(az_pred)
          ca2 == CosAll(az_pred)
          sz2 == SinAll(zen_pred)
          cz2 == CosAll(zen_pred)
          scalar_prod == [i \in DOMAIN az_true |->
                            np_scalar_prod(sa1[i], ca1[i], sz1[i], cz1[i],
                                           sa2[i], ca2[i], sz2[i], cz2[i])] \o <<>>
          clipped == [i \in DOMAIN scalar_prod |-> clip(scalar_prod[i], -100, 100)] \o <<>>
          dist == [i \in DOMAIN clipped |-> abs(arccos(clipped[i]))] \o <<>>
      IN [kind |-> "value",
          steps |-> <<"isfinite", "sin", "cos", "scalar_prod", "clip", "arccos", "abs", "mean">>,
          scalar_prod |-> scalar_prod,
          arccos_arg |-> clipped,
          value |-> mean(dist)]

\* (mutant) a dot product with the sign of the sine term flipped
torch_scalar_prod_sign(sa1, ca1, sz1, cz1, sa2, ca2, sz2, cz2) ==
  add(mul(mul(sz1, sz2), add(mul(ca1, ca2), mul(Fin(-100), mul(sa1, sa2)))), mul(cz1, cz2))

\* line 105: sz1 * sz2 * (ca1 * ca2 + sa1 * sa2) + (cz1 * cz2)
torch_scalar_prod(sa1, ca1, sz1, cz1, sa2, ca2, sz2, cz2) ==
  add(mul(mul(sz1, sz2), add(mul(ca1, ca2), mul(sa1, sa2))), mul(cz1, cz2))

\* lines 62-112
angular_dist_loss(yp, yt) ==
  LET az_true == Column(yt, 1)
      zen_true == Column(yt, 2)
      az_pred == Column(yp, 1)
      zen_pred == Column(yp, 2)
      sa1 == SinAll(az_true)
      ca1 == CosAll(az_true)
      sz1 == SinAll(zen_true)
      cz1 == CosAll(zen_true)
      sa2 == SinAll(az_pred)
      ca2 == CosAll(az_pred)
      sz2 == SinAll(zen_pred)
      cz2 == CosAll(zen_pred)
      scalar_prod == [i \in DOMAIN az_true |->
                        torch_scalar_prod(sa1[i], ca1[i], sz1[i], cz1[i],
                                          sa2[i], ca2[i], sz2[i], cz2[i])] \o <<>>
      clamped == [i \in DOMAIN scalar_prod |-> clip(scalar_prod[i], -100, 100)] \o <<>>
      dist == [i \in DOMAIN clamped |-> abs(arccos(clamped[i]))] \o <<>>
  IN [kind |-> "value",
      steps |-> <<"sin", "cos", "scalar_prod", "clip", "arccos", "abs", "mean">>,
      scalar_prod |-> scalar_prod,
      arccos_arg |-> clamped,
      value |-> mean(dist)]

\* the inputs: n rows of finite directions, with at most one element replaced
\* by a non-finite value
FiniteRows == {<<t[1], t[2], p[1], p[2]>> : t \in Dirs, p \in Dirs}
Poisons(n) == {<<0, 0, NaNf>>} \cup ((1..n) \X (1..4) \X NonFinite)
Elem(rows, i, c, poison) ==
  IF poison[1] = i /\ poison[2] = c THEN poison[3] ELSE Fin(rows[i][c])

InitMetric ==
  /\ \E n \in 0..MaxLen :
       \E rows \in [1..n -> FiniteRows], poison \in Poisons(n) :
          /\ y_true = [i \in 1..n |-> <<Elem(rows, i, 1, poison), Elem(rows, i, 2, poison)>>] \o <<>>
          /\ y_pred = [i \in 1..n |-> <<Elem(rows, i, 3, poison), Elem(rows, i, 4, poison)>>] \o <<>>
  /\ score_out = NoOut
  /\ loss_out = NoOut

\* angular_dist_score(y_true[:, 0], y_true[:, 1], y_pred[:, 0], y_pred[:, 1])
Score ==
  /\ score_out = NoOut
  /\ score_out' = angular_dist_score(Column(y_true, 1), Column(y_true, 2),
                                     Column(y_pred, 1), Column(y_pred, 2))
  /\ UNCHANGED <<data, call, outcome, np_random, n_calls, dm, y_true, y_pred, loss_out>>

\* angular_dist_loss(y_pred, y_true)
Loss ==
  /\ loss_out = NoOut
  /\ loss_out' = angular_dist_loss(y_pred, y_true)
  /\ UNCHANGED <<data, call, outcome, np_random, n_calls, dm, y_true, y_pred, score_out>>

InitM == IdleFolds /\ InitModule /\ IdleMetric
NextM == Setup
SpecModule == InitM /\ [][NextM]_vars

InitA == IdleFolds /\ IdleModule /\ InitMetric
NextA == Score \/ Loss
SpecMetric == InitA /\ [][NextA]_vars

Init == InitFolds /\ IdleModule /\ IdleMetric

Next == CreateFolds

Spec == Init /\ [][Next]_vars

\* ===================================================== claims: create_folds
Rows == DOMAIN data.index
Called == outcome # "none"
Failed == outcome \in {"ValueError", "KeyError"}
HasBins == "bins" \in data.columns
ValidFolds == \A i \in Rows : data.fold[i] \in 0..(call.n_splits - 1)
CountBinFold(b, f) == Cardinality({i \in Rows : data.bins[i] = b /\ data.fold[i] = f})
CountFold(f) == Cardinality({i \in Rows : data.fold[i] = f})
Near(a, b) == a - b <= 1 /\ b - a <= 1

\* C1: after create_folds returns, every row holds a fold in 0..n_splits-1 and
\* none holds the -1 sentinel, whatever the row index labels of the table are.
C1_FoldCoverage ==
  outcome = "returned" =>
    /\ "fold" \in data.columns
    /\ Len(data.fold) = Len(data.index)
    /\ ValidFolds
    /\ Unassigned \notin Range(data.fold)

\* C1 witness: a call returned on a table whose labels are not 0..n-1 in order
C1_Witness ==
  /\ outcome = "returned"
  /\ Len(data.index) >= 11
  /\ data.index[1] # 0
  /\ \A f \in 0..(call.n_splits - 1) : CountFold(f) > 0

\* C2 (as claimed): a call that fails leaves the caller's table as it was.
C2_NoPartialSuccess == [][Failed' => data' = data]_vars

C6_Deterministic ==
  [][(outcome = "returned" /\ outcome' = "returned" /\ call' = call)
       => data'.fold = data.fold]_vars

\* C6 witness: a second call returned on an augmented table
C6_Witness ==
  /\ n_calls >= 2
  /\ outcome = "returned"
  /\ Cardinality(Range(data.fold)) = call.n_splits

\* C7 (as claimed): for every bin b and folds f, g the numbers of rows with
\* bins = b in fold f and in fold g differ by at most one, and so do the sizes
\* of any two folds.
C7_Stratified ==
  outcome = "returned" =>
    \A f, g \in 0..(call.n_splits - 1) :
      /\ Near(CountFold(f), CountFold(g))
      /\ \A b \in Range(data.bins) : Near(CountBinFold(b, f), CountBinFold(b, g))

\* C7 (supporting): on a table with the default index 0..n-1 the folds are
\* stratified and balanced as claimed.
C7_StratifiedDefaultIndex ==
  (\A i \in Rows : data.index[i] = i - 1) => C7_Stratified

\* C9 (as claimed): a call with n_splits >= 2 on a table that has rows with
\* zero pulses succeeds, and every row gets a bin in 0..9 and a valid fold.
\* (Stated for tables of 11 rows or more, the smallest that are split at all.)
C9_ZeroPulsesLegal ==
  (/\ Called
   /\ call.n_splits >= 2
   /\ Len(data.index) >= 11
   /\ 0 \in Range(data.n_pulses))
  => /\ outcome = "returned"
     /\ HasBins
     /\ \A i \in Rows : data.bins[i] \in 0..(NumBins - 1)
     /\ ValidFolds


\* ================================================ claims: IceCubeDataModule
EventsWithFold(k) == {i \in DOMAIN dm.df : dm.df[i] = k}
EventsWithoutFold(k) == {i \in DOMAIN dm.df : dm.df[i] # k}
NoRepeats(q) == Cardinality(Range(q)) = Len(q)
SplitBy(k) ==
  /\ Range(dm.clr_valid) = EventsWithFold(k) /\ NoRepeats(dm.clr_valid)
  /\ Range(dm.clr_train) = EventsWithoutFold(k) /\ NoRepeats(dm.clr_train)
DisjointCover ==
  /\ Range(dm.clr_valid) \cap Range(dm.clr_train) = {}
  /\ Range(dm.clr_valid) \cup Range(dm.clr_train) = DOMAIN dm.df
TrainSteps == dm.train_steps[1] * dm.batch_size = Len(dm.clr_train) * dm.train_steps[2]

Elements == {y_true[i][c] : i \in DOMAIN y_true, c \in 1..2}
              \cup {y_pred[i][c] : i \in DOMAIN y_pred, c \in 1..2}
AllFinite == \A x \in Elements : x.k = "fin"
PI == ArcCosTable[1]
InRange(out) ==
  /\ out.kind = "value"
  /\ \A i \in DOMAIN out.arccos_arg :
        out.arccos_arg[i].k = "fin" /\ out.arccos_arg[i].v \in -100..100
  /\ out.value.k = "fin"
  /\ out.value.v >= 0 /\ out.value.v <= PI

\* C4: angular_dist_score raises whenever an element of one of its four inputs
\* is NaN or infinite, before any sine, cosine, dot product, clamp or arccos
\* step, and returns no value.
C4_NonFiniteRejected ==
  (score_out # NoOut /\ ~AllFinite) =>
     score_out.kind = "raise" /\ score_out.steps = <<"isfinite">>

\* C4 witness: the score was called with an infinite predicted zenith and raised
C4_Witness ==
  /\ score_out.kind = "raise"
  /\ \E i \in DOMAIN y_pred : y_pred[i][2] = Inf(-1)

\* C5 (as claimed): for all finite inputs both functions return without
\* raising, arccos only receives arguments in [-1, 1], and the mean distance is
\* a number in [0, pi].
C5_RangeAllFinite ==
  AllFinite =>
    /\ score_out # NoOut => InRange(score_out)
    /\ loss_out # NoOut => InRange(loss_out)

\* C5 (amended): the same for all finite inputs of at least one row.
C5_RangeNonEmpty ==
  (AllFinite /\ Len(y_true) >= 1) =>
    /\ score_out # NoOut => InRange(score_out)
    /\ loss_out # NoOut => InRange(loss_out)

\* C5 witness: rounding pushed a dot product above 1 in both functions, and
\* both returned a mean distance
C5_Witness ==
  /\ score_out.kind = "value" /\ loss_out.kind = "value"
  /\ \E i \in DOMAIN score_out.scalar_prod : score_out.scalar_prod[i].v > 100
  /\ \E i \in DOMAIN loss_out.scalar_prod : loss_out.scalar_prod[i].v < -100
  /\ score_out.value.k = "fin"

\* C8: on the same finite data both functions run the same steps (the score
\* after its finiteness check), take arccos of the same clamped dot products and
\* return the same scalar.
C8_SameResult ==
  (AllFinite /\ score_out # NoOut /\ loss_out # NoOut) =>
     /\ score_out.kind = "value"
     /\ Tail(score_out.steps) = loss_out.steps
     /\ score_out.arccos_arg = loss_out.arccos_arg
     /\ score_out.value = loss_out.value

\* C8 witness: both functions returned the same non-zero distance of two rows
C8_Witness ==
  /\ score_out.kind = "value" /\ loss_out.kind = "value"
  /\ Len(y_true) >= 2
  /\ score_out.value.k = "fin" /\ score_out.value.v > 0
  /\ loss_out.value = score_out.value

====
